---- MODULE Spec2Model ----
(***************************************************************************)
(* Model of the source staging / patch / merge procedure of the Android    *)
(* Rust toolchain build scripts (source_manager.py) and of the patch loop  *)
(* of do_build.py.                                                         *)
(*                                                                         *)
(* A directory tree is a function from paths to file contents; a path is   *)
(* a tuple of path components and a content is a small number standing    *)
(* for one version of the file's text.  A directory is a record            *)
(* [exists, files].  The external tools (cp, patch, rsync) are modelled    *)
(* by what they do to such trees, failures included.                       *)
(*                                                                         *)
(* A behaviour is a sequence of runs of one entry point on one checkout:   *)
(* setup_files (source_manager.py), which patches a staging copy, or       *)
(* do_build.main, which patches rustc_path() in place.  The functions of   *)
(* paths.py are taken to return the Path objects do_build.py uses them as. *)
(* do_build.main is followed up to the end of its patch loop.              *)
(***************************************************************************)
EXTENDS Integers, Sequences, FiniteSets, TLC

\* ---------------------------------------------------------------- bounds
MaxPatches == 2      \* files named rustc-* in the patch directory
MaxRuns == 2         \* invocations of the program, one after another

\* ------------------------------------------------------ trees and paths
Files == {"a", "b"}
Base == "src"                      \* last component of input_dir
TopPath(f) == <<f>>
NestedPath(f) == <<Base, f>>
TopPaths == {TopPath(f) : f \in Files}
NestedPaths == {NestedPath(f) : f \in Files}
\* the versions of a file's text
Contents == {0, 1, 2}
LastContent == CHOOSE c \in Contents : \A d \in Contents : d <= c

OldPath == <<"old">>               \* a file only an old output_dir holds
\* every path, in the order of a sorted file list
PathOrder == <<TopPath("a"), TopPath("b"), OldPath, NestedPath("a"), NestedPath("b")>>

EmptyTree == [p \in {} |-> 0]
NoDir == [exists |-> FALSE, files |-> EmptyTree]
Dir(t) == [exists |-> TRUE, files |-> t]

\* t1 with the entries of t2 written over it
Overlay(t1, t2) ==
    [p \in (DOMAIN t1) \cup (DOMAIN t2) |-> IF p \in DOMAIN t2 THEN t2[p] ELSE t1[p]]

Restrict(t, S) == [p \in (DOMAIN t) \cap S |-> t[p]]

\* the tree t placed below the directory Base
Nest(t) == [p \in {NestedPath(q[1]) : q \in DOMAIN t} |-> t[<<p[2]>>]]

\* ------------------------------------------------------------ cp -Rf
\* What `cp -Rf src dst` leaves when it succeeds: dst becomes a copy of src
\* when dst does not exist; when dst is an existing directory, src is copied
\* INTO it, as dst/Base.
CpTarget(dst, src) ==
    IF dst.exists THEN Dir(Overlay(dst.files, Nest(src))) ELSE Dir(src)

\* What a failing cp may leave behind: nothing at all, or any part of the copy.
CpPartial(dst, src) ==
    IF dst.exists
    THEN {Dir(Overlay(dst.files, Nest(Restrict(src, S)))) : S \in SUBSET (DOMAIN src)}
    ELSE {NoDir} \cup {Dir(Restrict(src, S)) : S \in SUBSET (DOMAIN src)}

\* ------------------------------------------------- patch -p1 -N -r -
\* A patch file is garbage or a set of hunks, at most one per file.  A hunk
\* rewrites version `from` of a file to version `to`.
Hunks == {[file |-> f, from |-> c, to |-> c + 1] : f \in Files, c \in Contents \ {LastContent}}
GarbageBody == [garbage |-> TRUE, hunks |-> {}]
DiffBody(hs) == [garbage |-> FALSE, hunks |-> hs]
Bodies == {GarbageBody} \cup {DiffBody({h}) : h \in Hunks}

\* How the patch tool treats one hunk on tree t (paths are relative to cwd,
\* one leading component stripped by -p1).
HunkKind(t, h) ==
    IF TopPath(h.file) \notin DOMAIN t THEN "missing"
    ELSE IF t[TopPath(h.file)] = h.from THEN "clean"
    ELSE IF t[TopPath(h.file)] = h.to THEN "reversed"
    ELSE "conflict"

\* One run of the patch tool: clean hunks are applied; with -N a reversed
\* (already applied) hunk is skipped and a conflicting hunk is rejected, and
\* both make the exit status 1; garbage input makes it 2.
PatchTool(t, body) ==
    IF body.garbage
    THEN [files |-> t, rc |-> 2, kinds |-> {"garbage"}]
    ELSE LET clean == {h \in body.hunks : HunkKind(t, h) = "clean"}
         IN  [files |-> [p \in DOMAIN t |->
                            IF \E h \in clean : TopPath(h.file) = p
                            THEN (CHOOSE h \in clean : TopPath(h.file) = p).to
                            ELSE t[p]],
              rc    |-> IF clean = body.hunks THEN 0 ELSE 1,
              kinds |-> {HunkKind(t, h) : h \in body.hunks}]

\* ------------------------------------------------ patch file names
\* A file of the patch directory: its stem ("rustc-" or something else) and
\* the characters after the stem, as a sequence of digits.
PatchName(suffix) == [stem |-> "rustc-", suffix |-> suffix]
OtherName == [stem |-> "README", suffix |-> <<>>]
\* rustc-1, rustc-10 and rustc-2
PatchNames == {PatchName(<<1>>), PatchName(<<1, 0>>), PatchName(<<2>>)}

\* glob('rustc-*')
Glob(dir) == {n \in DOMAIN dir : n.stem = "rustc-"}

\* Python's comparison of two strings (the names share the stem)
RECURSIVE StrLess(_, _)
StrLess(s, t) ==
    IF s = <<>> THEN t # <<>>
    ELSE IF t = <<>> THEN FALSE
    ELSE IF Head(s) = Head(t) THEN StrLess(Tail(s), Tail(t))
    ELSE Head(s) < Head(t)

\* sorted(...)
RECURSIVE Sorted(_)
Sorted(S) ==
    IF S = {} THEN <<>>
    ELSE LET m == CHOOSE x \in S : \A y \in S \ {x} : StrLess(x.suffix, y.suffix)
         IN  <<m>> \o Sorted(S \ {m})

\* ------------------------------------------------------------- state
VARIABLES
    source,          \* input_dir / rustc_path(): the tree of the Rust source
    patches,         \* the patch directory: file name -> patch body
    output,          \* output_dir
    staging,         \* tmp_output_dir = <output_dir>.tmp
    parent_exists,   \* whether the parent directory of output_dir exists
    prog,            \* the entry point this checkout is built with
    pc,              \* its position
    no_patch_abort,  \* the flag of the current run, as a truth value
    patch_list,      \* the local patch_list of the current run
    applied,         \* the patch tool's runs of the current run, in order
    exit_code,       \* the process's exit status, once pc is "exit" or "crash"
    tool_rc,         \* the exit status of the external tool that failed
    fail_stage,      \* the step that ended the run, "none" while there is none
    pre_output,      \* output as it was when the current run started
    promotion,       \* "none", "rename" or "merge": how promotion was begun
    staged,          \* staging's files as they were when promotion began
    touched,         \* the paths of output_dir written or deleted by the current run
    runs,            \* runs started so far
    prev_ok,         \* whether the run before the current one returned normally
    interfered,      \* whether another invocation has written to staging in this run
    cmds,            \* the commands the current run has run after the patch loop, in order
    overwrite,       \* fetch_source: args.overwrite
    branch_existed,  \* fetch_source: the module's global of that name
    git              \* fetch_source: the repository at RUST_SOURCE_PATH

vars == <<source, patches, output, staging, parent_exists, prog, pc, no_patch_abort,
          patch_list, applied, exit_code, tool_rc, fail_stage, pre_output,
          promotion, staged, touched, runs, prev_ok, interfered,
          cmds, overwrite, branch_existed, git>>

\* what only fetch_source reads and writes
fetch_vars == <<overwrite, branch_existed, git>>

SourceTrees == {[p \in TopPaths |-> 0]}

\* A symbolic link as a tree holds it: its content is the link, not a
\* version of a file, so no hunk of a patch matches it.
Symlink == LastContent + 1
\* the source tree with a symbolic link in it
LinkTrees == {[p \in TopPaths |-> IF p = TopPath("b") THEN Symlink ELSE 0]}

\* The patch directory holds up to MaxPatches files named rustc-* and one
\* other file, which would apply cleanly to the source if it were used.
OtherBody == DiffBody({[file |-> "b", from |-> 0, to |-> 1]})
PatchDirs ==
    UNION {{[n \in D \cup {OtherName} |-> IF n = OtherName THEN OtherBody ELSE f[n]] :
                f \in [D -> Bodies]} :
           D \in {X \in SUBSET PatchNames : Cardinality(X) <= MaxPatches}}

\* fetch_source is not at work: no repository is looked at
NoRepository ==
    [branch |-> FALSE, ahead |-> FALSE, tree |-> "base", index |-> "base", work |-> "base"]

\* what output_dir may hold before the first run
OutputPre ==
    {NoDir, Dir(EmptyTree),
     Dir([p \in TopPaths \cup {OldPath} |-> IF p = TopPath("a") THEN LastContent ELSE 0])}

\* exit statuses of a failing cp or rsync (1: error, 23: partial transfer)
FailCodes == {1, 23}

\* the exit status of a Python process that dies of an uncaught exception
UncaughtExit == 1

Ended == pc \in {"returned", "exit", "crash"}

InitWith(trees, progs) ==
    /\ source \in trees
    /\ patches \in PatchDirs
    /\ output \in OutputPre
    /\ staging = NoDir
    /\ parent_exists \in BOOLEAN
    /\ (~parent_exists => output = NoDir)
    /\ prog \in progs
    /\ pc = "idle"
    /\ no_patch_abort = FALSE
    /\ patch_list = <<>>
    /\ applied = <<>>
    /\ exit_code = 0
    /\ tool_rc = 0
    /\ fail_stage = "none"
    /\ pre_output = output
    /\ promotion = "none"
    /\ staged = EmptyTree
    /\ touched = {}
    /\ runs = 0
    /\ prev_ok = FALSE
    /\ interfered = FALSE
    /\ cmds = <<>>
    /\ overwrite = FALSE
    /\ branch_existed = FALSE
    /\ git = NoRepository

\* the entry points of the current revision
Progs == {"setup_files", "do_build"}

Init == InitWith(SourceTrees, Progs)

\* A new process starts: the bookkeeping of a run.
NewRun(p, npa) ==
    /\ pc = "idle" \/ Ended
    /\ prog = p
    /\ runs < MaxRuns
    /\ runs' = runs + 1
    /\ no_patch_abort' = npa
    /\ patch_list' = <<>>
    /\ applied' = <<>>
    /\ tool_rc' = 0
    /\ pre_output' = output
    /\ promotion' = "none"
    /\ staged' = EmptyTree
    /\ touched' = {}
    /\ prev_ok' = (pc = "returned")
    /\ interfered' = FALSE
    /\ cmds' = <<>>

\* -------------------------------------------------------- setup_files
\* mutant: the directory is left as it is
Rmtree_Keep(dir) == dir

\* shutil.rmtree, at line 69 called only for a directory that exists
Rmtree(dir) == NoDir

\* Lines 67-73: the stale staging directory is removed; a missing parent
\* directory is meant to be created, but `tmp_output_dir.parent()` calls a
\* Path object and raises TypeError.
SetupFilesStart(npa) ==
    /\ NewRun("setup_files", npa)
    /\ staging' = Rmtree(staging)
    /\ IF parent_exists
       THEN pc' = "copy" /\ fail_stage' = "none" /\ exit_code' = 0
       ELSE pc' = "crash" /\ fail_stage' = "mkdir" /\ exit_code' = UncaughtExit
    /\ UNCHANGED <<source, patches, output, parent_exists, prog>>
    /\ UNCHANGED fetch_vars

\* Lines 84-86: cp -Rf <reflink> input_dir tmp_output_dir
CopyReflink ==
    /\ prog = "setup_files" /\ pc = "copy"
    /\ \/ /\ staging' = CpTarget(staging, source)
          /\ pc' = "patches"
       \/ /\ staging' \in CpPartial(staging, source)
          /\ pc' = "fallback"
    /\ UNCHANGED <<source, patches, output, parent_exists, prog, no_patch_abort,
                   patch_list, applied, exit_code, tool_rc, fail_stage, pre_output,
                   promotion, staged, touched, runs, prev_ok, interfered>>
    /\ UNCHANGED <<cmds, fetch_vars>>

\* Lines 87-90: the plain cp; its CalledProcessError is not caught.
CopyFallback ==
    /\ prog = "setup_files" /\ pc = "fallback"
    /\ \/ /\ staging' = CpTarget(staging, source)
          /\ pc' = "patches"
          /\ UNCHANGED <<exit_code, tool_rc, fail_stage>>
       \/ \E rc \in FailCodes :
          /\ staging' \in CpPartial(staging, source)
          /\ pc' = "crash"
          /\ exit_code' = UncaughtExit
          /\ tool_rc' = rc
          /\ fail_stage' = "copy"
    /\ UNCHANGED <<source, patches, output, parent_exists, prog, no_patch_abort,
                   patch_list, applied, pre_output, promotion, staged, touched,
                   runs, prev_ok, interfered>>
    /\ UNCHANGED <<cmds, fetch_vars>>

\* ------------------------------------------- apply_patches, the patch loop
\* mutant: the names sorted as numbers are, shorter names first
RECURSIVE SortedShortFirst(_)
SortedShortFirst(S) ==
    IF S = {} THEN <<>>
    ELSE LET m == CHOOSE x \in S : \A y \in S \ {x} :
                      \/ Len(x.suffix) < Len(y.suffix)
                      \/ Len(x.suffix) = Len(y.suffix) /\ StrLess(x.suffix, y.suffix)
         IN  <<m>> \o SortedShortFirst(S \ {m})
SortedGlob_ShortFirst(dir) == SortedShortFirst(Glob(dir))

\* Line 28 (do_build.py line 115): sorted(patch_dir.glob('rustc-*'))
SortedGlob(dir) == Sorted(Glob(dir))

\* mutants: the exit status is never looked at; only status 1 ends the
\* run; the flag is not looked at
PatchAborts_Never(rc, npa) == FALSE
PatchAborts_OnlyStatusOne(rc, npa) == rc = 1 /\ ~npa
PatchAborts_IgnoreFlag(rc, npa) == rc # 0

\* Line 42 (do_build.py line 126): the run ends on this exit status
PatchAborts(rc, npa) == rc # 0 /\ ~npa

\* mutant: sys.exit(1)
SysExit_One(rc) == 1

\* Line 50 (do_build.py line 130): sys.exit(p.returncode)
SysExit(rc) == rc

\* mutant: setup_files hands input_dir to apply_patches
PatchesStaging_Never == FALSE

\* Line 93: setup_files has the patches applied in tmp_output_dir;
\* do_build.main (line 118) applies them in paths.rustc_path(), the source
PatchesStaging == prog = "setup_files"

\* the tree the patch tool runs in: cwd=code_dir
CodeDir == IF PatchesStaging THEN staging.files ELSE source

ListPatches ==
    /\ pc = "patches"
    /\ patch_list' = SortedGlob(patches)
    /\ pc' = "patch"
    /\ UNCHANGED <<source, patches, output, staging, parent_exists, prog,
                   no_patch_abort, applied, exit_code, tool_rc, fail_stage,
                   pre_output, promotion, staged, touched, runs, prev_ok, interfered>>
    /\ UNCHANGED <<cmds, fetch_vars>>

\* Lines 31-50 (do_build.py lines 115-130): one iteration of the loop.  Popen
\* and communicate() run the tool to its end before the loop goes on.
ApplyPatch ==
    /\ pc = "patch"
    /\ Len(applied) < Len(patch_list)
    /\ PatchesStaging => staging.exists
    /\ LET name == patch_list[Len(applied) + 1]
           r    == PatchTool(CodeDir, patches[name])
       IN  /\ applied' = Append(applied, [name |-> name, rc |-> r.rc, kinds |-> r.kinds])
           /\ IF PatchesStaging
              THEN staging' = Dir(r.files) /\ UNCHANGED source
              ELSE source' = r.files /\ UNCHANGED staging
           /\ IF PatchAborts(r.rc, no_patch_abort)
              THEN /\ pc' = "exit"
                   /\ exit_code' = SysExit(r.rc)
                   /\ tool_rc' = r.rc
                   /\ fail_stage' = "patch"
              ELSE UNCHANGED <<pc, exit_code, tool_rc, fail_stage>>
    /\ UNCHANGED <<patches, output, parent_exists, prog, no_patch_abort, patch_list,
                   pre_output, promotion, staged, touched, runs, prev_ok, interfered>>
    /\ UNCHANGED <<cmds, fetch_vars>>

LoopDone == pc = "patch" /\ Len(applied) = Len(patch_list)

\* ------------------------------------------------ setup_files, promotion
\* mutant: the staging directory is copied, not renamed
RenameDir_Copy(src) == [from |-> src, to |-> src]

\* Path.rename: the directory src takes the place of the missing directory
RenameDir(src) == [from |-> NoDir, to |-> src]

\* Lines 97-99
Rename ==
    /\ prog = "setup_files" /\ LoopDone
    /\ ~output.exists
    /\ staging.exists
    /\ output' = RenameDir(staging).to
    /\ staging' = RenameDir(staging).from
    /\ promotion' = "rename"
    /\ staged' = staging.files
    /\ touched' = DOMAIN staging.files
    /\ pc' = "returned"
    /\ UNCHANGED <<source, patches, parent_exists, prog, no_patch_abort, patch_list,
                   applied, exit_code, tool_rc, fail_stage, pre_output, runs,
                   prev_ok, interfered>>
    /\ UNCHANGED <<cmds, fetch_vars>>

\* mutant: rsync without -c and with files of equal size and time: only
\* missing and extra files are found
RsyncTodo_NoChecksum(src, dst) ==
    {p \in (DOMAIN src) \cup (DOMAIN dst) : p \notin DOMAIN dst \/ p \notin DOMAIN src}

\* mutant: rsync without --delete: files only dst holds are left alone
RsyncTodo_NoDelete(src, dst) ==
    {p \in DOMAIN src : p \notin DOMAIN dst \/ src[p] # dst[p]}

\* rsync -r --delete --links -c src/ dst: the paths it has to write or
\* delete; -c compares the files' contents
RsyncTodo(src, dst) ==
    {p \in (DOMAIN src) \cup (DOMAIN dst) :
        \/ p \notin DOMAIN dst
        \/ p \notin DOMAIN src
        \/ src[p] # dst[p]}

\* dst after rsync has dealt with path p
RsyncOne(src, dst, p) ==
    IF p \in DOMAIN src
    THEN Overlay(dst, Restrict(src, {p}))
    ELSE Restrict(dst, (DOMAIN dst) \ {p})

\* Lines 100-111: rsync is started
MergeStart ==
    /\ prog = "setup_files" /\ LoopDone
    /\ output.exists
    /\ staging.exists
    /\ promotion' = "merge"
    /\ staged' = staging.files
    /\ pc' = "merge"
    /\ UNCHANGED <<source, patches, output, staging, parent_exists, prog,
                   no_patch_abort, patch_list, applied, exit_code, tool_rc,
                   fail_stage, pre_output, touched, runs, prev_ok, interfered>>
    /\ UNCHANGED <<cmds, fetch_vars>>

\* rsync works through its sorted file list: the next path it deals with
RsyncNext(src, dst) ==
    LET todo == RsyncTodo(src, dst)
        i    == CHOOSE k \in 1..Len(PathOrder) :
                    /\ PathOrder[k] \in todo
                    /\ \A j \in 1..(k - 1) : PathOrder[j] \notin todo
    IN  PathOrder[i]

\* rsync transfers or deletes one file
MergeStep ==
    /\ pc = "merge"
    /\ staging.exists
    /\ RsyncTodo(staging.files, output.files) # {}
    /\ LET p == RsyncNext(staging.files, output.files)
       IN  /\ output' = Dir(RsyncOne(staging.files, output.files, p))
           /\ touched' = touched \cup {p}
    /\ UNCHANGED <<source, patches, staging, parent_exists, prog, pc,
                   no_patch_abort, patch_list, applied, exit_code, tool_rc,
                   fail_stage, pre_output, promotion, staged, runs, prev_ok, interfered>>
    /\ UNCHANGED <<cmds, fetch_vars>>

\* rsync exits non-zero: check_call raises CalledProcessError, not caught
MergeFail ==
    /\ pc = "merge"
    /\ \E rc \in FailCodes :
          /\ tool_rc' = rc
          /\ exit_code' = UncaughtExit
          /\ fail_stage' = "sync"
          /\ pc' = "crash"
    /\ UNCHANGED <<source, patches, output, staging, parent_exists, prog,
                   no_patch_abort, patch_list, applied, pre_output, promotion,
                   staged, touched, runs, prev_ok, interfered>>
    /\ UNCHANGED <<cmds, fetch_vars>>

\* Lines 110-113: rsync exits 0, then shutil.rmtree(tmp_output_dir)
MergeDone ==
    /\ pc = "merge"
    /\ staging.exists
    /\ RsyncTodo(staging.files, output.files) = {}
    /\ staging' = Rmtree(staging)
    /\ pc' = "returned"
    /\ UNCHANGED <<source, patches, output, parent_exists, prog, no_patch_abort,
                   patch_list, applied, exit_code, tool_rc, fail_stage, pre_output,
                   promotion, staged, touched, runs, prev_ok, interfered>>
    /\ UNCHANGED <<cmds, fetch_vars>>

\* -------------------------------------------------------- do_build.main
\* Lines 60-62: --no-patch-abort takes a value; line 126 tests its truth
NpaArgs == {"None", "", "1"}
Truthy(arg) == arg \notin {"None", ""}

\* Lines 66-109: up to the patch loop
DoBuildStart(arg) ==
    /\ NewRun("do_build", Truthy(arg))
    /\ pc' = "patches"
    /\ exit_code' = 0
    /\ fail_stage' = "none"
    /\ UNCHANGED <<source, patches, output, staging, parent_exists, prog>>
    /\ UNCHANGED fetch_vars

\* Line 139: the loop is left for config_toml.configure()
DoBuildConfigure ==
    /\ prog = "do_build" /\ LoopDone
    /\ pc' = "configure"
    /\ UNCHANGED <<source, patches, output, staging, parent_exists, prog,
                   no_patch_abort, patch_list, applied, exit_code, tool_rc,
                   fail_stage, pre_output, promotion, staged, touched,
                   runs, prev_ok, interfered>>
    /\ UNCHANGED <<cmds, fetch_vars>>

\* the statuses a command ends with
CmdCodes == {0, 1}

\* an entry of cmds: a command that was run and its return code
Ran(cmd, rc) == [cmd |-> cmd, rc |-> rc]

\* What the steps after the patch loop leave alone; each of them appends the
\* command it ran, with its return code, to cmds
DoBuildKeeps ==
    /\ UNCHANGED <<source, patches, output, staging, parent_exists, prog,
                   no_patch_abort, patch_list, applied, pre_output, promotion,
                   staged, touched, runs, prev_ok, interfered>>
    /\ UNCHANGED fetch_vars

\* A Python call that raises, or a check_call/check_output whose command
\* returns non-zero, is not caught in main: the interpreter exits 1
Uncaught(stage, rc) ==
    /\ pc' = "crash"
    /\ exit_code' = UncaughtExit
    /\ tool_rc' = rc
    /\ fail_stage' = stage

Proceeds(next) ==
    /\ pc' = next
    /\ UNCHANGED <<exit_code, tool_rc, fail_stage>>

\* Line 139: config_toml.configure() writes config.toml and the wrappers,
\* or raises (rc 1 in the log stands for the exception)
Configure ==
    /\ prog = "do_build" /\ pc = "configure"
    /\ \E rc \in CmdCodes :
          /\ cmds' = Append(cmds, Ran("configure", rc))
          /\ IF rc # 0 THEN Uncaught("configure", rc) ELSE Proceeds("bootstrap")
    /\ DoBuildKeeps

\* Lines 141-147: subprocess.call of x.py --help; the return value is dropped
Bootstrap ==
    /\ prog = "do_build" /\ pc = "bootstrap"
    /\ \E rc \in CmdCodes :
          cmds' = Append(cmds, Ran("x.py --help", rc))
    /\ Proceeds("cargo_fetch")
    /\ DoBuildKeeps

\* Lines 150-152: subprocess.check_output of cargo fetch --offline
CargoFetch ==
    /\ prog = "do_build" /\ pc = "cargo_fetch"
    /\ \E rc \in CmdCodes :
          /\ cmds' = Append(cmds, Ran("cargo fetch", rc))
          /\ IF rc # 0 THEN Uncaught("cargo fetch", rc) ELSE Proceeds("build")
    /\ DoBuildKeeps

\* Line 159: if ec != 0
BuildFailed_Never(ec) == FALSE

BuildFailed(ec) == ec # 0

\* Lines 157-161: x.py --stage 3 install; Popen(...).wait(), sys.exit(ec)
BuildInstall ==
    /\ prog = "do_build" /\ pc = "build"
    /\ \E ec \in {0} \cup FailCodes :
          /\ cmds' = Append(cmds, Ran("x.py install", ec))
          /\ IF BuildFailed(ec)
             THEN /\ pc' = "exit"
                  /\ exit_code' = ec
                  /\ tool_rc' = ec
                  /\ fail_stage' = "x.py install"
             ELSE Proceeds("install_sources")
    /\ DoBuildKeeps

\* Lines 164-167: rmtree and copytree of the standard library sources
InstallSources ==
    /\ prog = "do_build" /\ pc = "install_sources"
    /\ \E rc \in CmdCodes :
          /\ cmds' = Append(cmds, Ran("install sources", rc))
          /\ IF rc # 0 THEN Uncaught("install sources", rc) ELSE Proceeds("strip")
    /\ DoBuildKeeps

\* Lines 176-180: subprocess.check_call of strip -S
Strip ==
    /\ prog = "do_build" /\ pc = "strip"
    /\ \E rc \in CmdCodes :
          /\ cmds' = Append(cmds, Ran("strip", rc))
          /\ IF rc # 0 THEN Uncaught("strip", rc) ELSE Proceeds("libcxx")
    /\ DoBuildKeeps

\* Lines 183-197: copy libc++ into lib64, unlink Android.mk and Android.bp
InstallLibcxx ==
    /\ prog = "do_build" /\ pc = "libcxx"
    /\ \E rc \in CmdCodes :
          /\ cmds' = Append(cmds, Ran("install libc++", rc))
          /\ IF rc # 0 THEN Uncaught("install libc++", rc) ELSE Proceeds("dist")
    /\ DoBuildKeeps

\* Lines 200-202: subprocess.check_call of tar czf rust-<build_name>.tar.gz
Dist ==
    /\ prog = "do_build" /\ pc = "dist"
    /\ \E rc \in CmdCodes :
          /\ cmds' = Append(cmds, Ran("tar", rc))
          /\ IF rc # 0 THEN Uncaught("tar", rc) ELSE Proceeds("returned")
    /\ DoBuildKeeps


Next ==
    \/ \E npa \in BOOLEAN : SetupFilesStart(npa)
    \/ CopyReflink
    \/ CopyFallback
    \/ ListPatches
    \/ ApplyPatch
    \/ Rename
    \/ MergeStart
    \/ MergeStep
    \/ MergeFail
    \/ MergeDone
    \/ \E arg \in NpaArgs : DoBuildStart(arg)
    \/ DoBuildConfigure
    \/ Configure
    \/ Bootstrap
    \/ CargoFetch
    \/ BuildInstall
    \/ InstallSources
    \/ Strip
    \/ InstallLibcxx
    \/ Dist

Spec == Init /\ [][Next]_vars

\* ---------------------------------- a second invocation of setup_files
\* Two processes started on the same output_dir compute the same
\* tmp_output_dir (line 67).  The second one is modelled by what its lines
\* 68-90 do to that directory while the first is between two of its steps.
InProgress == {"copy", "fallback", "patches", "patch", "merge"}

\* Lines 68-69 of the other process
RivalRmtree ==
    /\ prog = "setup_files" /\ pc \in InProgress
    /\ staging.exists
    /\ staging' = Rmtree(staging)
    /\ interfered' = TRUE
    /\ UNCHANGED <<source, patches, output, parent_exists, prog, pc, no_patch_abort,
                   patch_list, applied, exit_code, tool_rc, fail_stage, pre_output,
                   promotion, staged, touched, runs, prev_ok>>
    /\ UNCHANGED <<cmds, fetch_vars>>

\* Lines 84-90 of the other process: its cp ends with status 0
RivalCopy ==
    /\ prog = "setup_files" /\ pc \in InProgress
    /\ staging' = CpTarget(staging, source)
    /\ staging' # staging
    /\ interfered' = TRUE
    /\ UNCHANGED <<source, patches, output, parent_exists, prog, pc, no_patch_abort,
                   patch_list, applied, exit_code, tool_rc, fail_stage, pre_output,
                   promotion, staged, touched, runs, prev_ok>>
    /\ UNCHANGED <<cmds, fetch_vars>>

\* Lines 36-40, 99, 110: Popen with a cwd that is gone, Path.rename of a
\* directory that is gone, rsync from one: an exception that is not caught
StagingGone ==
    /\ prog = "setup_files" /\ pc \in {"patch", "merge"}
    /\ ~staging.exists
    /\ pc' = "crash"
    /\ exit_code' = UncaughtExit
    /\ fail_stage' = "gone"
    /\ UNCHANGED <<source, patches, output, staging, parent_exists, prog,
                   no_patch_abort, patch_list, applied, tool_rc, pre_output,
                   promotion, staged, touched, runs, prev_ok, interfered>>
    /\ UNCHANGED <<cmds, fetch_vars>>

NextRace ==
    \/ Next
    \/ RivalRmtree
    \/ RivalCopy
    \/ StagingGone

SpecRace == Init /\ [][NextRace]_vars

\* The same program run on a source tree that holds a symbolic link.
InitLinks == InitWith(LinkTrees, Progs)
SpecLinks == InitLinks /\ [][Next]_vars

\* ----------------------------------------------- build.main (legacy)
\* build.py line 87: glob.glob gives the matching names in the order the
\* directory lists them, which is any order
GlobOrders(dir) ==
    {q \in [1..Cardinality(Glob(dir)) -> Glob(dir)] :
        \A i, j \in 1..Cardinality(Glob(dir)) : i # j => q[i] # q[j]}

\* build.py line 101: the tool's output holds the word FAILED; patch prints
\* it for a hunk that does not apply, not for a reversed or skipped patch
\* nor for garbage
OutputHasFAILED(kinds) == "conflict" \in kinds

\* build.py lines 56-58: --no-patch-abort takes a value here as well
BuildStart(arg) ==
    /\ NewRun("build", Truthy(arg))
    /\ pc' = "patches"
    /\ exit_code' = 0
    /\ fail_stage' = "none"
    /\ UNCHANGED <<source, patches, output, staging, parent_exists, prog>>
    /\ UNCHANGED fetch_vars

\* build.py line 87: the for statement evaluates glob.glob once
BuildListPatches ==
    /\ prog = "build" /\ pc = "patches"
    /\ patch_list' \in GlobOrders(patches)
    /\ pc' = "patch"
    /\ UNCHANGED <<source, patches, output, staging, parent_exists, prog,
                   no_patch_abort, applied, exit_code, tool_rc, fail_stage,
                   pre_output, promotion, staged, touched, runs, prev_ok, interfered>>
    /\ UNCHANGED <<cmds, fetch_vars>>

\* build.py lines 88-105: one iteration; the patch is applied in rustc_path()
BuildApplyPatch ==
    /\ prog = "build" /\ pc = "patch"
    /\ Len(applied) < Len(patch_list)
    /\ LET name == patch_list[Len(applied) + 1]
           r    == PatchTool(source, patches[name])
       IN  /\ applied' = Append(applied, [name |-> name, rc |-> r.rc, kinds |-> r.kinds])
           /\ source' = r.files
           /\ IF OutputHasFAILED(r.kinds) /\ ~no_patch_abort
              THEN /\ pc' = "exit"
                   /\ exit_code' = SysExit(r.rc)
                   /\ tool_rc' = r.rc
                   /\ fail_stage' = "patch"
              ELSE UNCHANGED <<pc, exit_code, tool_rc, fail_stage>>
    /\ UNCHANGED <<patches, output, staging, parent_exists, prog, no_patch_abort,
                   patch_list, pre_output, promotion, staged, touched,
                   runs, prev_ok, interfered>>
    /\ UNCHANGED <<cmds, fetch_vars>>

\* build.py line 109: the loop is left for config_toml.configure()
BuildConfigure ==
    /\ prog = "build" /\ LoopDone
    /\ pc' = "configure"
    /\ UNCHANGED <<source, patches, output, staging, parent_exists, prog,
                   no_patch_abort, patch_list, applied, exit_code, tool_rc,
                   fail_stage, pre_output, promotion, staged, touched,
                   runs, prev_ok, interfered>>
    /\ UNCHANGED <<cmds, fetch_vars>>

NextBuild ==
    \/ \E arg \in NpaArgs : BuildStart(arg)
    \/ BuildListPatches
    \/ BuildApplyPatch
    \/ BuildConfigure

InitBuild == InitWith(SourceTrees, {"build"})
SpecBuild == InitBuild /\ [][NextBuild]_vars

\* --------------------------------------------------------- fetch_source
\* The repository at RUST_SOURCE_PATH, as far as the program looks at it:
\*   branch  whether the branch rust-update-source-<version> exists
\*   ahead   whether its head is another commit than the head of aosp/master
\*   tree    the tree of its head: "base" is the tree of aosp/master
\*   index   what is staged: a tree, or "removed" after git rm -fr *
\*   work    the working tree: a tree, "removed", or "partial" after a fetch
\*           that failed
Archives == {"v1", "v2"}        \* what the URL may deliver
GitStates ==
    {g \in {[branch |-> b, ahead |-> a, tree |-> t, index |-> t, work |-> t] :
                b \in BOOLEAN, a \in BOOLEAN, t \in {"base"} \cup Archives} :
        /\ g.ahead => g.branch
        /\ g.tree # "base" => g.ahead}

\* Line 131 and line 60: the arguments of exit()
ExitBranchExists == -1
ExitCommandFailed == -2
\* the status the parent process sees for exit(code)
ExitStatus(code) == code % 256

\* mutant: the status of the command is not looked at
HandleAborts_Never(rc) == FALSE

\* Lines 57-60: handle_rustc_src_command calls exit(-2) on a non-zero status
HandleAborts(rc) == rc # 0

\* Line 32: sh -c 'curl ... | tar xz ...' ends with the status of tar
PipelineStatus(curl_rc, tar_rc) == tar_rc

\* Lines 173-176: main, up to the call of setup_git_branch
FetchStart(ow) ==
    /\ NewRun("fetch_source", FALSE)
    /\ overwrite' = ow
    /\ branch_existed' = FALSE
    /\ pc' = "setup_git_branch"
    /\ exit_code' = 0
    /\ fail_stage' = "none"
    /\ UNCHANGED <<source, patches, output, staging, parent_exists, prog, git>>

\* mutant: the run goes on to the checkout without --overwrite too
MayOverwrite_Always(ow) == TRUE

\* Line 125: if overwrite
MayOverwrite(ow) == ow

\* Lines 119-136: setup_git_branch
SetupGitBranch ==
    /\ prog = "fetch_source" /\ pc = "setup_git_branch"
    /\ LET test == Ran("COMMAND_GIT_TEST", IF git.branch THEN 0 ELSE 1)
       IN  IF git.branch
           THEN /\ branch_existed' = TRUE
                /\ IF MayOverwrite(overwrite)
                   THEN \E rc \in CmdCodes :
                          /\ cmds' = cmds \o <<test, Ran("COMMAND_GIT_CHECKOUT", rc)>>
                          /\ IF HandleAborts(rc)
                             THEN pc' = "exit" /\ exit_code' = ExitCommandFailed
                             ELSE pc' = "clean_repository" /\ UNCHANGED exit_code
                          /\ UNCHANGED git
                   ELSE /\ cmds' = cmds \o <<test>>
                        /\ pc' = "exit" /\ exit_code' = ExitBranchExists
                        /\ UNCHANGED git
           ELSE /\ UNCHANGED branch_existed
                /\ \E rc \in CmdCodes :
                      /\ cmds' = cmds \o <<test, Ran("COMMAND_REPO", rc)>>
                      /\ IF HandleAborts(rc)
                         THEN /\ pc' = "exit" /\ exit_code' = ExitCommandFailed
                              /\ UNCHANGED git
                         ELSE /\ pc' = "clean_repository" /\ UNCHANGED exit_code
                              /\ \E a \in BOOLEAN :
                                    git' = [branch |-> TRUE, ahead |-> a, tree |-> "base",
                                            index |-> "base", work |-> "base"]
    /\ UNCHANGED <<source, patches, output, staging, parent_exists, prog,
                   no_patch_abort, patch_list, applied, tool_rc, fail_stage, pre_output,
                   promotion, staged, touched, runs, prev_ok, interfered, overwrite>>

\* Lines 139-141: clean_repository
CleanRepository ==
    /\ prog = "fetch_source" /\ pc = "clean_repository"
    /\ \E rc \in CmdCodes :
          /\ cmds' = Append(cmds, Ran("COMMAND_GIT_RM", rc))
          /\ IF HandleAborts(rc)
             THEN pc' = "exit" /\ exit_code' = ExitCommandFailed
             ELSE pc' = "fetch_archive" /\ UNCHANGED exit_code
          /\ IF rc = 0
             THEN git' = [git EXCEPT !.index = "removed", !.work = "removed"]
             ELSE UNCHANGED git
    /\ UNCHANGED <<source, patches, output, staging, parent_exists, prog,
                   no_patch_abort, patch_list, applied, tool_rc, fail_stage, pre_output,
                   promotion, staged, touched, runs, prev_ok, interfered, overwrite,
                   branch_existed>>

\* Lines 144-151: fetch_archive.  curl -f that fails writes nothing or a
\* part of the archive, or fails when all of it is written; tar ends with
\* status 0 on a whole archive, and a tar that takes an empty input for an
\* empty archive (bsdtar) does so on no input as well.
FetchArchive ==
    /\ prog = "fetch_source" /\ pc = "fetch_archive"
    /\ \E curl_rc \in CmdCodes, tar_rc \in CmdCodes, a \in Archives :
          LET rc == PipelineStatus(curl_rc, tar_rc)
          IN  /\ cmds' = cmds \o <<Ran("curl", curl_rc), Ran("COMMAND_FETCH", rc)>>
              /\ IF HandleAborts(rc)
                 THEN pc' = "exit" /\ exit_code' = ExitCommandFailed
                 ELSE pc' = "commit_files" /\ UNCHANGED exit_code
              /\ IF tar_rc # 0
                 THEN git' = [git EXCEPT !.work = "partial"]
                 ELSE IF curl_rc = 0
                 THEN git' = [git EXCEPT !.work = a]
                 ELSE git' \in {[git EXCEPT !.work = a], git}
    /\ UNCHANGED <<source, patches, output, staging, parent_exists, prog,
                   no_patch_abort, patch_list, applied, tool_rc, fail_stage, pre_output,
                   promotion, staged, touched, runs, prev_ok, interfered, overwrite,
                   branch_existed>>

\* mutant: the commit is amended whenever the heads differ
AmendsPrevious_AnyBranch(existed, ahead) == ahead

\* Line 163: branch_existed and the two heads differ
AmendsPrevious(existed, ahead) == existed /\ ahead

\* Lines 154-170 and line 183: commit_files, then exit(0).  The two
\* rev-parse calls of line 163 run with check=True: a reference that does not
\* resolve raises CalledProcessError, which nothing catches.
CommitFiles ==
    /\ prog = "fetch_source" /\ pc = "commit_files"
    /\ \E add_rc \in CmdCodes, ref_rc \in CmdCodes, rc \in CmdCodes :
          LET add   == Ran("COMMAND_GIT_ADD", add_rc)
              index == git.work
              diff  == Ran("COMMAND_GIT_DIFF", IF index = git.tree THEN 0 ELSE 1)
              heads == IF branch_existed
                       THEN <<Ran("COMMAND_GIT_TEST", 0), Ran("COMMAND_GIT_TEST", ref_rc)>>
                       ELSE <<>>
              cmd   == IF AmendsPrevious(branch_existed, git.ahead)
                       THEN "COMMAND_GIT_AMEND" ELSE "COMMAND_GIT_COMMIT"
          IN  IF HandleAborts(add_rc)
              THEN /\ cmds' = Append(cmds, add)
                   /\ pc' = "exit" /\ exit_code' = ExitCommandFailed
                   /\ UNCHANGED git
              ELSE IF diff.rc = 0
              THEN /\ cmds' = cmds \o <<add, diff>>
                   /\ pc' = "exit" /\ exit_code' = 0
                   /\ git' = [git EXCEPT !.index = index]
              ELSE IF branch_existed /\ ref_rc # 0
              THEN /\ cmds' = cmds \o <<add, diff>> \o heads
                   /\ pc' = "crash" /\ exit_code' = UncaughtExit
                   /\ git' = [git EXCEPT !.index = index]
              ELSE /\ cmds' = cmds \o <<add, diff>> \o heads \o <<Ran(cmd, rc)>>
                   /\ IF HandleAborts(rc)
                      THEN /\ pc' = "exit" /\ exit_code' = ExitCommandFailed
                           /\ git' = [git EXCEPT !.index = index]
                      ELSE /\ pc' = "exit" /\ exit_code' = 0
                           /\ git' = [git EXCEPT !.index = index, !.tree = index,
                                                 !.ahead = TRUE]
    /\ UNCHANGED <<source, patches, output, staging, parent_exists, prog,
                   no_patch_abort, patch_list, applied, tool_rc, fail_stage, pre_output,
                   promotion, staged, touched, runs, prev_ok, interfered, overwrite,
                   branch_existed>>

NextFetch ==
    \/ \E ow \in BOOLEAN : FetchStart(ow)
    \/ SetupGitBranch
    \/ CleanRepository
    \/ FetchArchive
    \/ CommitFiles

InitFetch ==
    /\ source \in SourceTrees
    /\ patches = [n \in {OtherName} |-> OtherBody]
    /\ output = NoDir /\ staging = NoDir /\ parent_exists = TRUE
    /\ prog = "fetch_source"
    /\ pc = "idle"
    /\ no_patch_abort = FALSE
    /\ patch_list = <<>> /\ applied = <<>>
    /\ exit_code = 0 /\ tool_rc = 0 /\ fail_stage = "none"
    /\ pre_output = output /\ promotion = "none"
    /\ staged = EmptyTree /\ touched = {}
    /\ runs = 0 /\ prev_ok = FALSE /\ interfered = FALSE
    /\ cmds = <<>>
    /\ overwrite = FALSE /\ branch_existed = FALSE
    /\ git \in GitStates

SpecFetch == InitFetch /\ [][NextFetch]_vars

\* ======================================================== properties
\* s comes before t in the lexicographic order of strings
LexBefore(s, t) ==
    \E k \in 1..(Len(s) + 1) :
        /\ k - 1 <= Len(t)
        /\ \A j \in 1..(k - 1) : s[j] = t[j]
        /\ \/ k = Len(s) + 1 /\ Len(t) >= k
           \/ k <= Len(s) /\ k <= Len(t) /\ s[k] < t[k]

\* the patch files of a directory in ascending order of their names
InNameOrder(dir) ==
    LET G == {n \in DOMAIN dir : n.stem = "rustc-"}
    IN  CHOOSE q \in [1..Cardinality(G) -> G] :
            \A i, j \in 1..Cardinality(G) : i < j => LexBefore(q[i].suffix, q[j].suffix)

\* tree t with every hunk of the patch written into it
WithPatch(t, body) ==
    [p \in DOMAIN t |->
        IF \E h \in body.hunks : TopPath(h.file) = p
        THEN (CHOOSE h \in body.hunks : TopPath(h.file) = p).to
        ELSE t[p]]

RECURSIVE WithPatches(_, _, _, _)
WithPatches(t, dir, q, k) ==
    IF k = 0 THEN t ELSE WithPatch(WithPatches(t, dir, q, k - 1), dir[q[k]])

\* the source tree with every patch of the patch set applied
PatchedSource ==
    LET q == InNameOrder(patches)
    IN  WithPatches(source, patches, q, Cardinality(DOMAIN q))

AllPatchesAreDiffs == \A n \in DOMAIN patches : n.stem = "rustc-" => ~patches[n].garbage

SetupEnded == prog = "setup_files" /\ Ended

\* the run was ended by a failing copy or by a patch that failed with
\* no_patch_abort unset
CopyFailed == prog = "setup_files" /\ fail_stage = "copy"
PatchFailedUnset == ~no_patch_abort /\ \E i \in 1..Len(applied) : applied[i].rc # 0

TypeOK ==
    /\ pc \in {"idle", "copy", "fallback", "patches", "patch", "merge", "configure",
               "returned", "exit", "crash",
               "bootstrap", "cargo_fetch", "build", "install_sources", "strip",
               "libcxx", "dist",
               "setup_git_branch", "clean_repository", "fetch_archive", "commit_files"}
    /\ output.exists \in BOOLEAN /\ staging.exists \in BOOLEAN
    /\ prev_ok \in BOOLEAN /\ interfered \in BOOLEAN

\* ---------------------------------------------------------------- C1
\* C1 as stated: after a failed copy (both attempts) or a patch abort,
\* promotion was not begun, output_dir is as it was before the run, and the
\* staging directory exists.
C1_StagingAlwaysKept ==
    (prog = "setup_files" /\ (CopyFailed \/ PatchFailedUnset)) =>
        /\ promotion = "none"
        /\ output = pre_output
        /\ staging.exists

\* C1 amended: after a failed copy or a patch abort, promotion was not begun
\* and output_dir is as it was before the run; after a patch abort the
\* process has exited and the staging directory exists; after a failed copy
\* the staging directory is whatever cp left, which may be nothing.
C1_FailureKeepsOutput ==
    (prog = "setup_files" /\ (CopyFailed \/ PatchFailedUnset)) =>
        /\ promotion = "none"
        /\ output = pre_output
        /\ (PatchFailedUnset => pc = "exit" /\ staging.exists)
        /\ (CopyFailed => pc = "crash")

C1_Witness ==
    /\ prog = "setup_files" /\ pc = "exit" /\ PatchFailedUnset
    /\ pre_output.exists /\ staging.exists /\ staging.files # pre_output.files

\* ---------------------------------------------------------------- C2
\* C2: whenever setup_files returns normally, output_dir holds the source
\* tree with every patch of the patch set applied.
C2_OutputIsPatchedSource ==
    (prog = "setup_files" /\ pc = "returned") =>
        /\ AllPatchesAreDiffs
        /\ output = Dir(PatchedSource)

\* ---------------------------------------------------------------- C3
\* C3 as stated: whenever setup_files has ended, output_dir holds exactly
\* what it held before the run or exactly the staged and patched tree, and a
\* run that ended in an error had not begun promotion.
C3_NeverAMixture ==
    SetupEnded =>
        /\ output = pre_output \/ (promotion # "none" /\ output = Dir(staged))
        /\ (pc # "returned" => promotion = "none")

\* C3 amended: the same for every end of setup_files other than a non-zero
\* exit of the sync tool.  When the sync tool fails, promotion had begun, and
\* every path of output_dir holds what it held before the run or what the
\* staged tree holds for it.
C3_MixtureOnlyAfterSyncFailure ==
    SetupEnded =>
        /\ fail_stage # "sync" =>
              /\ output = pre_output \/ (promotion # "none" /\ output = Dir(staged))
              /\ (pc # "returned" => promotion = "none")
        /\ fail_stage = "sync" =>
              /\ promotion = "merge" /\ pc = "crash" /\ output.exists
              /\ \A p \in (DOMAIN output.files) \cup (DOMAIN staged) \cup (DOMAIN pre_output.files) :
                    \/ /\ p \in DOMAIN output.files /\ p \in DOMAIN staged
                       /\ output.files[p] = staged[p]
                    \/ /\ p \in DOMAIN output.files /\ p \in DOMAIN pre_output.files
                       /\ output.files[p] = pre_output.files[p]
                    \/ /\ p \notin DOMAIN output.files
                       /\ (p \notin DOMAIN staged \/ p \notin DOMAIN pre_output.files)

C3_Witness ==
    /\ SetupEnded /\ pc = "returned" /\ promotion = "merge"
    /\ output = Dir(staged) /\ output # pre_output
    /\ touched # {}

\* ---------------------------------------------------------------- C4
\* C4: a patch that the patch tool reports as reversed (already applied) is
\* a no-op for the patch loop: the run does not end on it.
C4_ReversedIsNoOp ==
    prog = "setup_files" =>
        \A i \in 1..Len(applied) :
            applied[i].kinds = {"reversed"} => ~(pc = "exit" /\ i = Len(applied))

\* ---------------------------------------------------------------- C5
\* C5: with no_patch_abort unset, a patch on which the patch tool exits
\* non-zero is the last one passed to the tool, and the process has exited
\* with the tool's exit status.
C5_FirstFailureStops ==
    ~no_patch_abort =>
        \A i \in 1..Len(applied) :
            applied[i].rc # 0 =>
                /\ i = Len(applied)
                /\ pc = "exit"
                /\ exit_code = applied[i].rc
                /\ fail_stage = "patch"

C5_Witness ==
    /\ ~no_patch_abort /\ pc = "exit"
    /\ Len(applied) < Len(patch_list)
    /\ "conflict" \in applied[Len(applied)].kinds
    /\ exit_code = 1

\* ---------------------------------------------------------------- C6
\* the run has left its patch loop by the loop's end
AfterPatchLoop ==
    \/ pc \in {"merge", "returned", "configure", "bootstrap", "cargo_fetch",
               "build", "install_sources", "strip", "libcxx", "dist"}
    \/ prog = "do_build" /\ cmds # <<>>

\* C6: with no_patch_abort set, no patch ends the run (the only exit left is
\* do_build's, with the exit code of a failed build); once the loop is over
\* every patch file was passed to the tool exactly once, and setup_files can
\* take its promotion step.
C6_OverrideRunsEveryPatch ==
    no_patch_abort =>
        /\ fail_stage # "patch"
        /\ pc = "exit" => prog = "do_build" /\ fail_stage = "x.py install"
        /\ (pc = "patch" \/ AfterPatchLoop) =>
              \A n \in DOMAIN patches :
                  Cardinality({i \in 1..Len(applied) : applied[i].name = n})
                      <= (IF n.stem = "rustc-" THEN 1 ELSE 0)
        /\ (LoopDone \/ AfterPatchLoop) =>
              \A n \in DOMAIN patches :
                  n.stem = "rustc-" => \E i \in 1..Len(applied) : applied[i].name = n
        /\ (prog = "setup_files" /\ LoopDone) => ENABLED (Rename \/ MergeStart)

C6_Witness ==
    /\ no_patch_abort /\ prog = "setup_files" /\ pc = "returned"
    /\ Len(applied) = MaxPatches
    /\ applied[1].rc # 0

\* ---------------------------------------------------------------- C7
\* C7: the patch files passed to the patch tool are files named rustc-*, in
\* strictly ascending lexicographic order of their names (so each at most
\* once), in both patch loops.
C7_AscendingNameOrder ==
    /\ \A i \in 1..Len(applied) :
          applied[i].name \in DOMAIN patches /\ applied[i].name.stem = "rustc-"
    /\ \A i, j \in 1..Len(applied) :
          i < j => LexBefore(applied[i].name.suffix, applied[j].name.suffix)

C7_Witness ==
    /\ Len(applied) = 2
    /\ applied[1].name.suffix = <<1, 0>>
    /\ applied[2].name.suffix = <<2>>

\* ---------------------------------------------------------------- C8
\* C8 as stated: a successful setup_files leaves exit status 0, and after a
\* failing patch, a failing fallback copy or a failing sync tool the exit
\* status of the process is the exit status of that tool.
C8_ExitCodeIsToolCode ==
    SetupEnded =>
        /\ pc = "returned" => exit_code = 0
        /\ fail_stage \in {"patch", "copy", "sync"} => exit_code = tool_rc

\* C8 amended: a successful setup_files returns with no exit status set (0);
\* after a failing patch the exit status is the patch tool's; a failing
\* fallback copy or sync tool raises CalledProcessError, which ends the
\* process with Python's status for an uncaught exception, 1: non-zero, and
\* not the tool's.
C8_ExitCodes ==
    SetupEnded =>
        /\ pc = "returned" => exit_code = 0 /\ fail_stage = "none"
        /\ fail_stage = "patch" => pc = "exit" /\ exit_code = tool_rc /\ tool_rc # 0
        /\ fail_stage \in {"copy", "sync"} =>
              pc = "crash" /\ exit_code = UncaughtExit /\ tool_rc # 0

C8_Witness ==
    /\ SetupEnded /\ fail_stage = "patch" /\ exit_code = 2

\* ---------------------------------------------------------------- C9
\* C9: with no patch files, a successful setup_files leaves an output_dir
\* equal to the source tree.
C9_NoPatchesOutputIsSource ==
    (prog = "setup_files" /\ pc = "returned" /\ Glob(patches) = {}) =>
        output = Dir(source)

\* --------------------------------------------------------------- C10
\* C10: when output_dir comes into existence during setup_files, it does so
\* in one step, with all of the staged tree, and the staging path is gone.
C10_AtomicRename ==
    [][(prog = "setup_files" /\ ~output.exists /\ output'.exists) =>
          /\ output'.files = staging.files
          /\ ~staging'.exists
          /\ pc = "patch" /\ Len(applied) = Len(patch_list)]_vars

C10_Witness ==
    /\ prog = "setup_files" /\ pc = "returned" /\ promotion = "rename"
    /\ ~pre_output.exists /\ output.exists /\ ~staging.exists
    /\ Cardinality(DOMAIN output.files) > 1

\* --------------------------------------------------------------- C11
\* C11: when output_dir exists before the run, a merge that ends without
\* error leaves output_dir with the files and contents of the staged tree
\* (files only the old output_dir held are gone, files that differed are
\* replaced), and the staging directory is held, unchanged, until the merge
\* has ended; only then is it deleted.
C11_MergeMakesOutputTheStagedTree ==
    (prog = "setup_files" /\ promotion = "merge") =>
        /\ pre_output.exists
        /\ pc \in {"merge", "crash"} => staging = Dir(staged)
        /\ pc = "returned" => output = Dir(staged) /\ staging = NoDir

C11_Witness ==
    /\ prog = "setup_files" /\ promotion = "merge" /\ pc = "returned"
    /\ OldPath \in DOMAIN pre_output.files
    /\ OldPath \notin DOMAIN output.files
    /\ \E p \in DOMAIN staged :
          /\ p \in DOMAIN pre_output.files
          /\ pre_output.files[p] # staged[p]
          /\ output.files[p] = staged[p]
    /\ ~staging.exists

\* --------------------------------------------------------------- C12
\* C12: a merge writes no file of output_dir whose content equals the staged
\* file's, and when the run before returned normally too (source and patches
\* are the same in both), the second run writes or deletes no file of
\* output_dir at all.
C12_UnchangedFilesUntouched ==
    (prog = "setup_files" /\ promotion = "merge") =>
        /\ \A p \in touched :
              ~(/\ p \in DOMAIN pre_output.files
                /\ p \in DOMAIN staged
                /\ pre_output.files[p] = staged[p])
        /\ (prev_ok /\ pc = "returned") => touched = {}

\* --------------------------------------------------------------- C13
\* C13: in every run, the first as well as one that follows runs that failed
\* and left a staging directory behind, the staging directory right after the
\* copy step holds the source tree and nothing else.
C13_StagingStartsClean ==
    (prog = "setup_files" /\ pc = "patches") => staging = Dir(source)

\* --------------------------------------------------------------- C14
\* C14: when the first cp has failed, the plain cp runs once; when it
\* succeeds the run goes on to the patches with no failure recorded and the
\* staging directory holds the source tree and nothing else, whatever the
\* failed first cp had left there.
C14_FallbackGivesTheSourceTree ==
    [][(prog = "setup_files" /\ pc = "fallback" /\ pc' # "crash") =>
          /\ pc' = "patches"
          /\ fail_stage' = "none" /\ exit_code' = 0
          /\ staging' = Dir(source)]_vars

\* --------------------------------------------------------------- C15
\* C15 as stated: at every termination of setup_files the staging path no
\* longer exists.
C15_StagingGoneAtEveryEnd ==
    SetupEnded => ~staging.exists

\* C15, amended: when setup_files returns normally the staging path no
\* longer exists; a staging directory found at a termination was left by an
\* error of the copy, patch or sync step, and the next run removes it before
\* it copies.
C15_StagingGoneAfterSuccess ==
    prog = "setup_files" =>
        /\ pc = "returned" => ~staging.exists
        /\ (Ended /\ staging.exists) => fail_stage \in {"copy", "patch", "sync"}
        /\ pc = "copy" => ~staging.exists

C15_Witness ==
    /\ prog = "setup_files" /\ pc = "returned" /\ ~staging.exists
    /\ runs > 1 /\ ~prev_ok
    /\ promotion = "merge" /\ staged # EmptyTree

\* --------------------------------------------------------------- C16
\* C16: after a run of setup_files that returned normally, by rename or by
\* merge, every path that is a symbolic link in the source tree is a
\* symbolic link in output_dir.
C16_SymlinksKept ==
    (prog = "setup_files" /\ pc = "returned") =>
        \A p \in DOMAIN source :
            source[p] = Symlink =>
                p \in DOMAIN output.files /\ output.files[p] = Symlink

\* --------------------------------------------------------------- C18
\* C18: no step of setup_files changes the source tree; the copy only reads
\* it and the patches are applied to the staging copy.
C18_SourceNeverModified ==
    [][prog = "setup_files" => source' = source]_vars

C18_Witness ==
    /\ prog = "setup_files" /\ pc = "returned"
    /\ \E i \in 1..Len(applied) : applied[i].rc = 0 /\ "clean" \in applied[i].kinds
    /\ source \in SourceTrees
    /\ \E p \in (DOMAIN source) \cap (DOMAIN output.files) : output.files[p] # source[p]

\* --------------------------------------------------------------- C19
\* C19: when setup_files is started and the parent directory of output_dir
\* does not exist, the start creates it and the run carries on with the copy.
C19_MissingParentIsCreated ==
    [][(prog = "setup_files" /\ runs' = runs + 1 /\ ~parent_exists) =>
          (parent_exists' /\ pc' = "copy")]_vars

\* --------------------------------------------------------------- C20
\* C20: the patch loop of build.main goes through the files named rustc-* in
\* ascending order of their names, the order apply_patches and do_build.main
\* use.
C20_BuildAppliesInNameOrder ==
    (prog = "build" /\ pc \notin {"idle", "patches"}) =>
        patch_list = SortedGlob(patches)

\* --------------------------------------------------------------- C17
\* C17: a run of setup_files that returns normally with an output_dir other
\* than the source tree with all patches applied is one whose staging
\* directory another invocation has deleted or overwritten; with no second
\* invocation at work during the run that state is not reached.
C17_OnlyARaceBreaksARun ==
    (prog = "setup_files" /\ pc = "returned" /\ output # Dir(PatchedSource)) =>
        interfered

\* the interleaving of C17's first half: every tool of the run ended with
\* status 0, nothing is nested, and output_dir lacks a patch
C17_RaceReached ==
    /\ prog = "setup_files" /\ pc = "returned" /\ interfered
    /\ Len(applied) > 0
    /\ \A i \in 1..Len(applied) : applied[i].rc = 0
    /\ DOMAIN staged = TopPaths
    /\ output # Dir(PatchedSource)

\* --------------------------------------------------------------- C21
\* C21: when fetch_source finds the update branch and --overwrite is not
\* given, setup_git_branch ends the process with exit(-1) (status 255 for the
\* parent process); the only command the run has run is the test for the
\* branch, so no checkout, git rm, fetch, git add, commit or amend, and the
\* repository is as it was.
C21_NoOverwriteNoDestruction ==
    /\ [][(prog = "fetch_source" /\ pc = "setup_git_branch"
                /\ git.branch /\ ~overwrite) =>
             /\ pc' = "exit"
             /\ exit_code' = ExitBranchExists /\ ExitStatus(exit_code') = 255
             /\ cmds' = <<Ran("COMMAND_GIT_TEST", 0)>>
             /\ git' = git]_vars
    /\ [](prog = "fetch_source" /\ pc = "exit" /\ exit_code = ExitBranchExists =>
             \A i \in 1..Len(cmds) : cmds[i].cmd = "COMMAND_GIT_TEST")

C21_Witness ==
    /\ prog = "fetch_source" /\ pc = "exit" /\ exit_code = ExitBranchExists
    /\ git.branch /\ ~overwrite /\ branch_existed
    /\ cmds = <<Ran("COMMAND_GIT_TEST", 0)>>

\* --------------------------------------------------------------- C22
\* the commands run through handle_rustc_src_command, and their place in main
Handled ==
    {"COMMAND_GIT_CHECKOUT", "COMMAND_REPO", "COMMAND_GIT_RM", "COMMAND_FETCH",
     "COMMAND_GIT_ADD", "COMMAND_GIT_AMEND", "COMMAND_GIT_COMMIT"}
StepOf(cmd) ==
    CASE cmd \in {"COMMAND_GIT_CHECKOUT", "COMMAND_REPO"} -> 1
      [] cmd = "COMMAND_GIT_RM" -> 2
      [] cmd = "COMMAND_FETCH" -> 3
      [] cmd = "COMMAND_GIT_ADD" -> 4
      [] cmd \in {"COMMAND_GIT_AMEND", "COMMAND_GIT_COMMIT"} -> 5
IsHandled(e) == e.cmd \in Handled
Committed == \E i \in 1..Len(cmds) :
                 cmds[i].cmd \in {"COMMAND_GIT_AMEND", "COMMAND_GIT_COMMIT"}

\* the first half of C22: the handled commands of a run are, in order, a
\* prefix of branch setup, git rm, fetch, git add, commit or amend, and one
\* that ends with a non-zero status is the last command of the run, which
\* ends with exit(-2)
HandledInOrder ==
    prog = "fetch_source" =>
        LET h == SelectSeq(cmds, IsHandled)
        IN  \A k \in 1..Len(h) :
                /\ StepOf(h[k].cmd) = k
                /\ h[k].rc # 0 =>
                      /\ k = Len(h) /\ cmds[Len(cmds)] = h[k]
                      /\ pc = "exit" /\ exit_code = ExitCommandFailed

\* C22: main runs branch setup, git rm, fetch, git add and commit or amend in
\* this order, a non-zero status of one of them ends the process with
\* exit(-2) and nothing is run after it; nothing is committed or amended in
\* a run whose download has failed.
C22_FailureStopsTheRun ==
    /\ HandledInOrder
    /\ prog = "fetch_source" =>
          ((\E i \in 1..Len(cmds) : cmds[i].cmd = "curl" /\ cmds[i].rc # 0)
              => ~Committed)

\* --------------------------------------------------------------- C23
RanCmd(q, cmd) == \E i \in 1..Len(q) : q[i].cmd = cmd
RanOk(q, cmd) == \E i \in 1..Len(q) : q[i].cmd = cmd /\ q[i].rc = 0

\* C23: a call of commit_files whose git add succeeds ends in one of three
\* ways.  With nothing staged it calls exit(0) and runs neither commit nor
\* amend.  Otherwise it runs git commit --amend when the branch was there
\* before the run (the run checked it out) and its head is not the head of
\* aosp/master, and git commit in every other case; never both.  In a run
\* that created the branch with repo start nothing is amended.
C23_OneOfThreeOutcomes ==
    [][(prog = "fetch_source" /\ pc = "commit_files" /\ pc' # "commit_files") =>
          LET new     == SubSeq(cmds', Len(cmds) + 1, Len(cmds'))
              added   == RanOk(new, "COMMAND_GIT_ADD")
              staged_ == git.work # git.tree
              existed == RanCmd(cmds, "COMMAND_GIT_CHECKOUT")
              amend   == RanCmd(new, "COMMAND_GIT_AMEND")
              commit  == RanCmd(new, "COMMAND_GIT_COMMIT")
          IN  /\ ~(amend /\ commit)
              /\ (amend \/ commit) => (added /\ staged_)
              /\ (added /\ ~staged_) =>
                    /\ pc' = "exit" /\ exit_code' = 0
                    /\ git'.tree = git.tree /\ git'.ahead = git.ahead
              /\ amend => (existed /\ git.ahead)
              /\ commit => ~(existed /\ git.ahead)
              /\ (added /\ staged_ /\ pc' # "crash") => (amend \/ commit)
              /\ RanCmd(cmds, "COMMAND_REPO") => ~amend]_vars

C23_Witness ==
    /\ prog = "fetch_source" /\ pc = "exit" /\ exit_code = 0
    /\ RanOk(cmds, "COMMAND_GIT_CHECKOUT")
    /\ cmds[Len(cmds)] = Ran("COMMAND_GIT_AMEND", 0)
    /\ runs > 1


\* ---------------------------------------------------------------- C24
\* the run reached strip or tar
Packed == RanCmd(cmds, "strip") \/ RanCmd(cmds, "tar")

====
